---- MODULE Spec2Model ----
(***************************************************************************)
(* Model of the bridge's reasoning-process handles: OnaBackend (dialect A, *)
(* src/nars_interface.py) and OpenNarsBackend (dialect B,                  *)
(* src/opennars_interface.py).                                             *)
(*                                                                         *)
(* Text is a sequence of tokens: the maximal runs of non-space characters  *)
(* of a Python string, in order; the token "\n" stands for a line break.   *)
(* What Python computes on the characters of one token (a regex match, a   *)
(* replace, a split inside the token) is a table over the token alphabet.  *)
(* Real numbers are integers in hundredths (0.3 is 30).                    *)
(***************************************************************************)
EXTENDS Integers, Sequences, FiniteSets, TLC

\* ---------------------------------------------------------------- bounds
\* lines the process writes to its output before it falls silent
MaxLines == 2
\* the same, where only the reader and the get_* calls run
MaxLinesGet == 3
\* sentences the caller sends after construction
MaxSends == 1

\* ----------------------------------------------------- program constants
FloorA == 30
FloorB == 50
ConfThresholdOut == 30
ConfThresholdDerived == 10
AnticipatingScore == 50

\* quantizer.py, in ten-thousandths
InitVigilance == 5000
VigilanceFloor == 100
\* learning_rate = 0.1 as the divisor 10
LearningRateDen == 10
\* decay = 0.05 * error, error in hundredths
DecayPerError == 5

\* --------------------------------------------------------- Python values
None == [some |-> FALSE, val |-> <<>>]
Some(v) == [some |-> TRUE, val |-> v]
\* bool(x) of an optional string: None and "" are both falsy
Truthy(o) == o.some /\ o.val # <<>>

Min(a, b) == IF a < b THEN a ELSE b
Max(a, b) == IF a > b THEN a ELSE b

\* str.strip(): leading and trailing white space removed
WhiteSpace == {" ", "\t", "\n"}
RECURSIVE LStrip(_)
LStrip(t) ==
    IF t # <<>> /\ Head(t) \in WhiteSpace THEN LStrip(Tail(t)) ELSE t
RECURSIVE RStrip(_)
RStrip(t) ==
    IF t # <<>> /\ t[Len(t)] \in WhiteSpace THEN RStrip(SubSeq(t, 1, Len(t) - 1)) ELSE t
Strip(t) == RStrip(LStrip(t))

\* least index of a token of t that lies in S, 0 when there is none
FindTok(t, S) ==
    IF \E i \in 1..Len(t) : t[i] \in S
    THEN CHOOSE i \in 1..Len(t) : t[i] \in S /\ \A j \in 1..(i - 1) : t[j] \notin S
    ELSE 0
\* least index where the tokens of pat occur consecutively in t, 0 when none
FindSeq(t, pat) ==
    LET at(i) == i + Len(pat) - 1 <= Len(t) /\ SubSeq(t, i, i + Len(pat) - 1) = pat
    IN  IF \E i \in 1..Len(t) : at(i)
        THEN CHOOSE i \in 1..Len(t) : at(i) /\ \A j \in 1..(i - 1) : ~at(j)
        ELSE 0

\* ------------------------------------------------------- token tables
\* re.search(r"\^([a-zA-Z0-9_]+)", tok): "^" + group(1), "" when no match
CaretOp(tok) ==
    CASE tok \in {"^left", "^left(x)", "(^left,#1)!"} -> "^left"
      [] tok \in {"^right", "(^right,#1)!", "^right>!"} -> "^right"
      [] tok = "^wait>!" -> "^wait"
      [] OTHER -> ""
\* "^" in tok
HasCaret(tok) == CaretOp(tok) # "" \/ tok = "^"
\* tok.startswith("^")
StartsCaret(tok) == tok \in {"^left", "^left(x)", "^right", "^right>!", "^wait>!", "^"}
\* tok.split('(')[0]
BeforeParen(tok) ==
    CASE tok = "^left(x)" -> "^left"
      [] tok = "(^left,#1)!" -> ""
      [] tok = "(^right,#1)!" -> ""
      [] tok = "<(*,{SELF})" -> "<"
      [] OTHER -> tok
\* tok.replace("<","").replace(">","")
Unangle(tok) ==
    CASE tok = "<tick>" -> "tick"
      [] tok = "<<tick>" -> "tick"
      [] tok = "<tock>" -> "tock"
      [] tok = "<tock>>." -> "tock."
      [] tok = "<boom>" -> "boom"
      [] tok = "<a>." -> "a."
      [] tok = "<b>." -> "b."
      [] tok = "<x>" -> "x"
      [] tok = "<y>" -> "y"
      [] tok = "<(*,{SELF})" -> "(*,{SELF})"
      [] tok = "^left>!" -> "^left!"
      [] tok = "^right>!" -> "^right!"
      [] tok = "^wait>!" -> "^wait!"
      [] tok = "-->" -> "--"
      [] tok = "=/>" -> "=/"
      [] OTHER -> tok
\* the text between "<" and ">" when tok holds both, as re "<(.+)>" takes it
Inner(tok) ==
    CASE tok = "<tick>" -> "tick"
      [] tok = "<tock>" -> "tock"
      [] tok = "<boom>" -> "boom"
      [] tok = "<a>." -> "a"
      [] tok = "<b>." -> "b"
      [] tok = "<x>" -> "x"
      [] tok = "<y>" -> "y"
      [] OTHER -> ""
\* tok.split(".")[0] and whether tok holds a "."
HasDot(tok) == tok \in {"tock.", "a.", "b.", ".", "%1.00;0.58%", "%1.00;0.20%"}
BeforeDot(tok) ==
    CASE tok = "tock." -> "tock"
      [] tok = "a." -> "a"
      [] tok = "b." -> "b"
      [] tok = "." -> ""
      [] tok \in {"%1.00;0.58%", "%1.00;0.20%"} -> "%1"
      [] OTHER -> tok
\* float() of the number a regex captured in tok, in hundredths;
\* NoMatch when the regex does not match tok, BadFloat when float() raises
NoMatch == -1000
BadFloat == -2000
\* re.search(r";([0-9\.]+)%", tok)
ConfPct(tok) ==
    CASE tok = "%1.00;0.58%" -> 58
      [] tok = "%1.00;0.30%" -> 30
      [] tok = "%1.00;0.20%" -> 20
      [] tok = "%1.00;0.5.8%" -> BadFloat
      [] OTHER -> NoMatch
\* re.search(r"confidence=([0-9\.]+)", tok)
ConfEq(tok) ==
    CASE tok = "confidence=0.50" -> 50
      [] tok = "confidence=0.10" -> 10
      [] tok = "confidence=." -> BadFloat
      [] OTHER -> NoMatch
\* tok is "expectation=" followed by one or more of [-0-9.] and nothing else
ExpectEq(tok) ==
    CASE tok = "expectation=0.70" -> 70
      [] tok = "expectation=-" -> BadFloat
      [] OTHER -> NoMatch
\* the leftmost match of a regex in a text, given what it yields on each
\* token: the first entry of nums that is a match, NoMatch when none is
FirstNum(nums) ==
    IF \E i \in 1..Len(nums) : nums[i] # NoMatch
    THEN nums[CHOOSE i \in 1..Len(nums) :
                nums[i] # NoMatch /\ \A j \in 1..(i - 1) : nums[j] = NoMatch]
    ELSE NoMatch
\* re.search(r"\^([a-zA-Z0-9_]+)", text): the leftmost match
FirstCaretOp(t) ==
    IF \E i \in 1..Len(t) : CaretOp(t[i]) # ""
    THEN CaretOp(t[CHOOSE i \in 1..Len(t) :
                CaretOp(t[i]) # "" /\ \A j \in 1..(i - 1) : CaretOp(t[j]) = ""])
    ELSE ""
\* a Python string as text: "" has no token
TextOf(s) == IF s = "" THEN <<>> ELSE <<s>>
\* text.replace("<","").replace(">","")
UnangleText(t) == [i \in 1..Len(t) |-> Unangle(t[i])]
\* sub in text, for a sub without spaces: some token holds it
Holds(tok, sub) == tok = sub \/ Unangle(tok) = sub \/ Inner(tok) = sub
InText(sub, t) == \E i \in 1..Len(t) : Holds(t[i], sub)

\* ------------------------------------------------ dialect A: line parsing
\* The reader's view of the four signal slots while it handles one line:
\* [act, err, der, ant], and exc = TRUE when the handling raised ValueError.
Slots(a, e, d, n) == [act |-> a, err |-> e, der |-> d, ant |-> n, exc |-> FALSE]

\* mutant: the first operation of a window is kept
SetAction_first(s, op) == IF s.act.some THEN s ELSE [s EXCEPT !.act = Some(op)]
\* mutant: surprises add up
RaiseErrorA_sum(s) == [s EXCEPT !.err = s.err + FloorA]
\* mutant: the newest statement goes to the front of the queue
AppendDerived_front(s, content) == [s EXCEPT !.der = <<content>> \o s.der]
\* how the reader stores an executed operation in the last-action slot
SetAction(s, op) == [s EXCEPT !.act = Some(op)]
\* how the reader raises the prediction error in dialect A
RaiseErrorA(s) == [s EXCEPT !.err = Max(s.err, FloorA)]
\* how the reader appends to the two queues
AppendDerived(s, content) == [s EXCEPT !.der = Append(s.der, content)]
AppendAnticipation(s, score, text) == [s EXCEPT !.ant = Append(s.ant, <<score, text>>)]

\* Case A: "<op> executed with args"
ExecutedWithArgsA(line, s) ==
    LET i == FindSeq(line, <<"executed", "with", "args">>)
    IN  IF i >= 2 /\ StartsCaret(line[1])
        THEN SetAction(s, SubSeq(line, 1, i - 1))
        ELSE s
\* Case A.5: "Selected: ... ^op"
SelectedA(line, s) ==
    LET i == FindTok(line, {"Selected:"})
    IN  IF i > 0 /\ i < Len(line) /\ (\E k \in 1..Len(line) : HasCaret(line[k]))
           /\ FirstCaretOp(line) # ""
        THEN SetAction(s, <<FirstCaretOp(line)>>)
        ELSE s
\* mutant: a confidence equal to the threshold is a surprise
Exceeds_orEqual(conf, threshold) == conf >= threshold
\* if conf > 0.3
Exceeds(conf, threshold) == conf > threshold
\* Case B: "OUT: ..." : operation, confidence, derived statement
OutA(line, s) ==
    IF line # <<>> /\ line[1] = "OUT:"
    THEN LET content == Strip(Tail(line))
             s1 == IF FirstCaretOp(content) # ""
                   THEN SetAction(s, <<FirstCaretOp(content)>>)
                   ELSE s
             conf == FirstNum([i \in 1..Len(content) |-> ConfPct(content[i])])
         IN  IF conf = BadFloat
             THEN [s1 EXCEPT !.exc = TRUE]
             ELSE AppendDerived(IF conf # NoMatch /\ Exceeds(conf, ConfThresholdOut)
                                THEN RaiseErrorA(s1) ELSE s1,
                                content)
    ELSE s
\* 1.5: "decision expectation=<score> implication: <statement>"
DecisionA(line, s) ==
    LET i == FindTok(line, {"decision"})
    IN  IF i > 0 /\ i + 3 <= Len(line) /\ ExpectEq(line[i + 1]) # NoMatch
           /\ line[i + 2] = "implication:" /\ ExpectEq(line[i + 1]) # BadFloat
        THEN AppendAnticipation(s, ExpectEq(line[i + 1]),
                                Strip(SubSeq(line, i + 3, Len(line))))
        ELSE s
\* "Anticipating:" anywhere in the line
AnticipatingA(line, s) ==
    IF FindTok(line, {"Anticipating:"}) > 0
    THEN AppendAnticipation(s, AnticipatingScore, Strip(line))
    ELSE s
\* re.search(r"<(.+)>", line).group(1) for a line whose "<" and ">" lie in
\* one token; <<>> when the regex does not match
AngleTerm(line) ==
    IF \E i \in 1..Len(line) : Inner(line[i]) # ""
    THEN <<Inner(line[CHOOSE i \in 1..Len(line) :
                Inner(line[i]) # "" /\ \A j \in 1..(i - 1) : Inner(line[j]) = ""])>>
    ELSE <<>>
\* Legacy "Derived" lines: term, relevance filter, confidence
DerivedA(line, s, last_input_term) ==
    IF FindTok(line, {"Derived:", "Derived"}) > 0
    THEN LET s1 == IF line[1] = "Derived:" /\ AngleTerm(line) # <<>>
                   THEN AppendDerived(s, AngleTerm(line))
                   ELSE s
             conf == FirstNum([i \in 1..Len(line) |-> ConfEq(line[i])])
         IN  IF last_input_term # "" /\ ~InText(last_input_term, line)
             THEN s1
             ELSE IF conf # NoMatch /\ conf # BadFloat /\ conf > ConfThresholdDerived
                  THEN RaiseErrorA(s1)
                  ELSE s1
    ELSE s
\* the body of the reader's loop for one non-empty stripped line
ParseA(line, s, last_input_term) ==
    LET s3 == OutA(line, SelectedA(line, ExecutedWithArgsA(line, s)))
    IN  IF s3.exc
        THEN s3
        ELSE DerivedA(line, AnticipatingA(line, DecisionA(line, s3)), last_input_term)

\* ------------------------------------------------ dialect B: line parsing
\* content of an "OUT:" or "Answer:" line, <<>> for any other line
ContentB(line) ==
    IF line # <<>> /\ line[1] \in {"OUT:", "Answer:"} THEN Strip(Tail(line)) ELSE <<>>
\* the rule <A =/> B> of a content with exactly one "=/>": <<A, B>>
RuleOf(content) ==
    LET i == FindTok(content, {"=/>"})
        rest == SubSeq(content, i + 1, Len(content))
        d == FindTok(rest, {tok \in {rest[k] : k \in 1..Len(rest)} : HasDot(Unangle(tok))})
        cut == IF d = 0 THEN UnangleText(rest)
               ELSE UnangleText(SubSeq(rest, 1, d - 1))
                    \o TextOf(BeforeDot(Unangle(rest[d])))
    IN  <<UnangleText(SubSeq(content, 1, i - 1)), cut>>
HasOneRule(content) ==
    /\ FindTok(content, {"=/>"}) > 0
    /\ Cardinality({k \in 1..Len(content) : content[k] = "=/>"}) = 1
\* text between the first marker and the next one (str.split(marker)[1])
AfterMarker(line, marker) ==
    LET i == FindTok(line, {marker})
        rest == SubSeq(line, i + 1, Len(line))
        j == FindTok(rest, {marker})
    IN  Strip(IF j = 0 THEN rest ELSE SubSeq(rest, 1, j - 1))
\* 2. Operations: "EXE: ^op(args)"
ExeB(line, s) ==
    IF FindTok(line, {"EXE:"}) > 0
    THEN LET raw_op == AfterMarker(line, "EXE:")
             k == FindTok(raw_op, {tok \in {raw_op[i] : i \in 1..Len(raw_op)} :
                                     StartsCaret(tok)})
         IN  IF k > 0
             THEN SetAction(s, TextOf(BeforeParen(raw_op[k])))
             ELSE SetAction(s, raw_op)
    ELSE s
\* explicit DISCONFIRM
DisconfirmB(line, s) ==
    IF FindTok(line, {"DISCONFIRM", "DISCONFIRM:"}) > 0
    THEN [s EXCEPT !.err = FloorB]
    ELSE s
\* 1. Capture derived
CaptureB(line, s) ==
    IF ContentB(line) # <<>> THEN AppendDerived(s, ContentB(line)) ELSE s
\* the four slots after the reader handled one non-empty stripped line
ParseB(line, s) == DisconfirmB(line, ExeB(line, CaptureB(line, s)))
\* learned_rules after the line
dictSet(d, k, v) == [x \in DOMAIN d \cup {k} |-> IF x = k THEN v ELSE d[x]]
LearnB(line, rules) ==
    IF ContentB(line) # <<>> /\ HasOneRule(ContentB(line))
    THEN dictSet(rules, RuleOf(ContentB(line))[1], RuleOf(ContentB(line))[2])
    ELSE rules
\* active_anticipation after the line: explicit ANTICIPATE override
AnticipateB(line, active) ==
    IF FindTok(line, {"ANTICIPATE:"}) > 0
    THEN Some(UnangleText(AfterMarker(line, "ANTICIPATE:")))
    ELSE active

\* ------------------------------------------------------------ ActionMapper
\* self.mapping, in insertion order
mapping ==
    << <<"^left", 0>>, <<"^right", 1>>, <<"^forward", 2>>, <<"^move", 2>>,
       <<"^pick", 3>>, <<"^drop", 4>>, <<"^toggle", 5>>, <<"^activate", 5>>,
       <<"^say", 6>>, <<"^wait", 7>> >>
\* mutant: a later name replaces the one stored for the id
KeepLast(d, action_id, op) == dictSet(d, action_id, op)
\* if action_id not in self.id_to_op: self.id_to_op[action_id] = op
KeepFirst(d, action_id, op) == IF action_id \in DOMAIN d THEN d ELSE dictSet(d, action_id, op)
RECURSIVE BuildIdToOp(_, _)
\* the loop over self.mapping.items() from its i-th item on
BuildIdToOp(i, d) ==
    IF i > Len(mapping) THEN d
    ELSE BuildIdToOp(i + 1, KeepFirst(d, mapping[i][2], mapping[i][1]))
id_to_op == BuildIdToOp(1, [x \in {} |-> ""])
\* mutant: no name is found
MappingGet_default(table, op, default) == default
\* self.mapping.get(op, default) on a table of <<name, id>> items; op is a
\* string as its tokens, a name of the table being one token
MappingGet(table, op, default) ==
    IF \E i \in 1..Len(table) : op = <<table[i][1]>>
    THEN table[CHOOSE i \in 1..Len(table) : op = <<table[i][1]>>][2]
    ELSE default
\* mutant: the name is looked up as given
Clean_raw(nars_op) == nars_op
\* op = nars_op.strip()
Clean(nars_op) == Strip(nars_op)
\* ActionMapper.map_action on the given self.mapping
map_action(table, nars_op) == MappingGet(table, Clean(nars_op), -1)
\* mutant: the name inserted last for the id
get_op_for_id_last(action_id) ==
    IF \E i \in 1..Len(mapping) : mapping[i][2] = action_id
    THEN mapping[CHOOSE i \in 1..Len(mapping) :
                   /\ mapping[i][2] = action_id
                   /\ \A j \in (i + 1)..Len(mapping) : mapping[j][2] # action_id][1]
    ELSE "^wait"
\* ActionMapper.get_op_for_id: self.id_to_op.get(action_id, "^wait")
get_op_for_id(action_id) ==
    IF action_id \in DOMAIN id_to_op THEN id_to_op[action_id] ELSE "^wait"
\* the token op + ">!" of the goal sentence
GoalTok(op) ==
    CASE op = "^left" -> "^left>!"
      [] op = "^right" -> "^right>!"
      [] op = "^forward" -> "^forward>!"
      [] op = "^move" -> "^move>!"
      [] op = "^activate" -> "^activate>!"
      [] op = "^pick" -> "^pick>!"
      [] op = "^drop" -> "^drop>!"
      [] op = "^toggle" -> "^toggle>!"
      [] op = "^say" -> "^say>!"
      [] OTHER -> "^wait>!"
\* f"<(*,{{SELF}}) --> {op}>! :|:"
GoalSentence(op) == <<"<(*,{SELF})", "-->", GoalTok(op), ":|:">>

\* ------------------------------------------------------------------ state
VARIABLES
    \* the handle object
    phase,              \* "new", "live" (constructed), "failed" (constructor raised)
    dialect,            \* "A" OnaBackend, "B" OpenNarsBackend
    process,            \* "none" or "proc"
    running,
    log_file,           \* "none", "open", "closed"
    thread,             \* "none" or "started"
    last_action, last_error, last_derived, anticipations,
    last_input_term,    \* dialect A
    history, learned_rules, active_anticipation,   \* dialect B
    \* the external process and its pipes
    procState,          \* "alive" or "exited"
    stdin,              \* the lines delivered to the process, in order
    wbuf,               \* lines written to the stream and not delivered
    nout,               \* lines the process has written so far
    \* the reader thread: where it is in _monitor_output, and its line
    rpc, rline,
    \* the caller thread: the call in progress and its local copy
    cpc, tmp,
    raised,             \* an exception reached the caller
    rcause,             \* why the reader left its loop
    \* history variables
    fresh,              \* the get_* that returned last, nothing having happened since
    full,               \* that get_* returned a value other than the empty default
    calm, second,       \* of the get_* in progress: undisturbed; "no" or how it started
    broke,              \* a write to the process failed after construction
    sendRaised,         \* a send_input changed the prediction error
    idleSend,           \* send_input was called on a handle that was not running
    sentArgs,           \* the arguments of the sends whose write succeeded
    handled,            \* the lines the reader has handled, in order
    nStops,             \* calls of stop that have returned, up to two
    stopWaited,         \* the last stop returned after a join or with no live reader
    prodD, retD,        \* derived statements produced by lines / returned by get_derived
    prodN, retN,        \* the same for anticipations
    winMax, nSurp,      \* surprises since the last prediction-error reset
    execWin,            \* operations of the lines since the last action reset
    sinceReset          \* sends on the running handle since get_prediction_error
                        \* last returned, 3 for three and more or no return yet

handleV == <<phase, dialect, process, running, log_file, thread>>
slotV == <<last_action, last_error, last_derived, anticipations>>
bookV == <<last_input_term, history, learned_rules, active_anticipation>>
envV == <<procState, stdin, wbuf, nout>>
readerV == <<rpc, rline, rcause>>
callerV == <<cpc, tmp, raised>>
histGetV == <<fresh, full, calm, second>>
histLifeV == <<broke, sendRaised>>
histQV == <<prodD, retD, prodN, retN>>
histSV == <<winMax, nSurp, execWin>>
histSendV == <<idleSend, sentArgs>>
histParseV == <<handled>>
histStopV == <<nStops, stopWaited>>
histExpectV == <<sinceReset>>
\* the quantizer (DynamicEventMap); coordinates, distances and the vigilance
\* are in ten-thousandths, so that 0.5 is 5000
VARIABLES
    prototypes,         \* the list of prototype vectors
    usage_counts, last_used,
    vigilance,
    qret,               \* what the last call returned: <<"event", index>>, <<>> for None
    qlast,              \* history: the last call and its vector
    qargs,              \* history: the tick and the threshold or error of the last call
    qbefore,            \* history: the quantizer's fields before the last call
    ncalls,             \* history: the number of calls made
    file,               \* the pickled blob on disk, NoFile while there is none
    saved               \* history: the fields when save was last called
    ,
    \* an ActionMapper
    tables,             \* self.mapping and self.id_to_op
    mret,               \* what the last call returned
    mcall               \* history: the last call and its argument
mapV == <<tables, mret, mcall>>
persistV == <<file, saved>>
quantV == <<prototypes, usage_counts, last_used, vigilance, qret, qlast, qargs, qbefore, ncalls,
            persistV>>
NoFile == <<>>
\* the fields of the quantizer
Fields(p, u, l, vig) == [prototypes |-> p, usage_counts |-> u, last_used |-> l, vigilance |-> vig]
QState == Fields(prototypes, usage_counts, last_used, vigilance)
\* the history of a call with the given tick and threshold or error
QCall(step, param) == qargs' = [step |-> step, param |-> param] /\ qbefore' = QState
bridgeV == <<handleV, slotV, bookV, envV, readerV, callerV,
             histGetV, histLifeV, histQV, histSV, histSendV, histParseV, histStopV, histExpectV>>
vars == <<bridgeV, quantV, mapV>>

Dialects == {"A", "B"}
Gets == {"get_action", "get_prediction_error", "get_derived", "get_anticipations"}
NoDict == [x \in {} |-> <<>>]
EmptySlots == Slots(None, 0, <<>>, <<>>)

\* "*volume=100", the line the constructor sends
VolumeCmd == <<"*volume=100">>
Init ==
    /\ phase = "new" /\ dialect = "A" /\ process = "none" /\ running = FALSE
    /\ log_file = "none" /\ thread = "none"
    /\ last_action = None /\ last_error = 0 /\ last_derived = <<>> /\ anticipations = <<>>
    /\ last_input_term = "" /\ history = <<>> /\ learned_rules = NoDict
    /\ active_anticipation = None
    /\ procState = "exited" /\ stdin = <<>> /\ wbuf = <<>> /\ nout = 0
    /\ rpc = "none" /\ rline = <<>>
    /\ cpc = "idle" /\ tmp = <<>> /\ raised = FALSE /\ rcause = "none"
    /\ fresh = "none" /\ full = FALSE /\ calm = FALSE /\ second = "no"
    /\ broke = FALSE /\ sendRaised = FALSE
    /\ idleSend = FALSE /\ sentArgs = <<>> /\ handled = <<>>
    /\ nStops = 0 /\ stopWaited = FALSE
    /\ sinceReset = 3
    \* DynamicEventMap.__init__
    /\ prototypes = <<>> /\ usage_counts = <<>> /\ last_used = <<>>
    /\ vigilance = InitVigilance
    /\ qret = <<>> /\ qlast = [op |-> "none", vector |-> <<>>] /\ ncalls = 0
    /\ qargs = [step |-> 0, param |-> 0]
    /\ qbefore = Fields(<<>>, <<>>, <<>>, InitVigilance)
    /\ file = NoFile /\ saved = <<>>
    \* ActionMapper.__init__
    /\ tables = [mapping |-> mapping, id_to_op |-> id_to_op]
    /\ mret = <<>> /\ mcall = [op |-> "none", arg |-> <<>>]
    /\ prodD = <<>> /\ retD = <<>> /\ prodN = <<>> /\ retN = <<>>
    /\ winMax = 0 /\ nSurp = 0 /\ execWin = <<>>

\* mutant: send_input does not test self.running
NotRunningReturn_never(r) == FALSE
\* if not self.running: return
NotRunningReturn(r) == ~r
\* mutant: the sentence is written as given
WriteLine_raw(narsese) == narsese
\* the sentence as written: a newline is added when it does not end with one
WriteLine(narsese) ==
    IF narsese # <<>> /\ narsese[Len(narsese)] = "\n" THEN narsese ELSE Append(narsese, "\n")
\* stdin.write(narsese): the text joins the stream's buffer
Written(buf, narsese) == Append(buf, WriteLine(narsese))
\* stdin.flush(): the buffer reaches the process, or stays when the pipe is broken
Flushed(pipe, buf, ok) == IF ok THEN pipe \o buf ELSE pipe
Unflushed(buf, ok) == IF ok THEN <<>> ELSE buf

\* -------------------------------------------------------------- __init__
\* the except clauses around Popen: which launch failures the constructor catches
LaunchCaught(d, launch) == launch = "FileNotFoundError" \/ d = "B"
\* launch: "ok", "FileNotFoundError" (no such executable) or "PermissionError"
\* (any other OSError of Popen); alive: the process still reads its input when
\* the constructor writes the volume command
Construct(d, logOk, launch, alive) ==
    /\ phase = "new"
    /\ dialect' = d
    /\ log_file' = IF logOk THEN "open" ELSE "none"
    /\ IF launch = "ok"
       THEN /\ process' = "proc"
            /\ procState' = IF alive THEN "alive" ELSE "exited"
            /\ stdin' = Flushed(stdin, Written(wbuf, VolumeCmd), alive)
            /\ wbuf' = Unflushed(Written(wbuf, VolumeCmd), alive)
            /\ running' = alive
            /\ thread' = IF alive THEN "started" ELSE "none"
            /\ rpc' = IF alive THEN "loop" ELSE "none"
            /\ phase' = "live"
            /\ raised' = FALSE
       ELSE /\ process' = "none"
            /\ running' = FALSE
            /\ phase' = IF LaunchCaught(d, launch) THEN "live" ELSE "failed"
            /\ raised' = ~LaunchCaught(d, launch)
            /\ UNCHANGED <<procState, stdin, wbuf, thread, rpc>>
    /\ UNCHANGED <<slotV, bookV, nout, rline, rcause, cpc, tmp>>

\* ------------------------------------------------------------ send_input
\* dialect A: narsese.strip().replace("<","").replace(">","").split(" ")[0]
CleanA(narsese) ==
    IF Strip(narsese) = <<>> THEN "" ELSE Unangle(Strip(narsese)[1])
\* dialect B: narsese.strip().split(" ")[0].replace("<","").replace(">","")
InputTermB(narsese) ==
    IF Strip(narsese) = <<>> THEN <<>> ELSE TextOf(Unangle(Strip(narsese)[1]))
\* list.count
Count(seq, x) == Cardinality({i \in 1..Len(seq) : seq[i] = x})
\* mutant: the history teaches no rule
LearnFromHistory_never(hist, rules) == rules
\* "Immediate learning": the rule tick -> tock once both were seen more than twice
LearnFromHistory(hist, rules) ==
    IF Count(hist, <<"tick">>) > 2 /\ Count(hist, <<"tock">>) > 2
    THEN dictSet(rules, <<"tick">>, <<"tock">>)
    ELSE rules
\* 2. Check Surprise: the sent term differs from the active expectation
SurpriseB(input_term, active) ==
    /\ Truthy(active)
    /\ input_term # <<>>
    /\ input_term # active.val
    /\ ~StartsCaret(input_term[1])
\* mutant: every send raises the prediction error
SendErrorB_always(input_term, active, err) == FloorB
\* the prediction error after send_input in dialect B
SendErrorB(input_term, active, err) ==
    IF SurpriseB(input_term, active) THEN FloorB ELSE err
\* mutant: a send leaves the expectation it checked in place
NextExpectation_keep(input_term, rules, active) ==
    IF input_term \in DOMAIN rules THEN Some(rules[input_term]) ELSE active
\* 3. the next expectation: consumed by this send, then set from the rules
NextExpectation(input_term, rules, active) ==
    IF input_term \in DOMAIN rules
    THEN Some(rules[input_term])
    ELSE IF Truthy(active) THEN None ELSE active
\* the write and flush: they succeed while the process reads its input and
\* raise BrokenPipeError (an OSError) once it has exited
WriteOk == procState = "alive"
\* mutant: a failed write is ignored
RunningAfterWrite_ignore(ok) == TRUE
\* self.running after the try around write and flush
RunningAfterWrite(ok) == ok

\* send_input(narsese), as one step of the caller
SendBody(narsese) ==
    /\ phase = "live" /\ cpc = "idle"
    /\ IF NotRunningReturn(running)
       THEN UNCHANGED <<handleV, slotV, bookV, envV, readerV, callerV>>
       ELSE /\ IF dialect = "A"
               THEN /\ last_input_term' =
                         IF CleanA(narsese) # "" THEN CleanA(narsese) ELSE last_input_term
                    /\ UNCHANGED <<history, learned_rules, active_anticipation, last_error>>
               ELSE LET input_term == InputTermB(narsese)
                        hist == Append(history, input_term)
                        rules == LearnFromHistory(hist, learned_rules)
                    IN  /\ history' = hist
                        /\ learned_rules' = rules
                        /\ last_error' = SendErrorB(input_term, active_anticipation, last_error)
                        /\ active_anticipation' =
                             NextExpectation(input_term, rules, active_anticipation)
                        /\ UNCHANGED last_input_term
            /\ stdin' = Flushed(stdin, Written(wbuf, narsese), WriteOk)
            /\ wbuf' = Unflushed(Written(wbuf, narsese), WriteOk)
            /\ running' = RunningAfterWrite(WriteOk)
            /\ UNCHANGED <<phase, dialect, process, log_file, thread,
                           last_action, last_derived, anticipations,
                           procState, nout, readerV, callerV>>
\* send_input(narsese) while the process has at most MaxSends lines to read
Send(narsese) == (running => Len(stdin) <= MaxSends) /\ SendBody(narsese)

\* send_action(action_id)
SendAction(action_id) == Send(GoalSentence(get_op_for_id(action_id)))

\* ------------------------------------------------------------------ get_*
\* the empty value of each slot
Default(get) ==
    CASE get = "get_action" -> None
      [] get = "get_prediction_error" -> 0
      [] OTHER -> <<>>
SlotOf(get) ==
    CASE get = "get_action" -> last_action
      [] get = "get_prediction_error" -> last_error
      [] get = "get_derived" -> last_derived
      [] OTHER -> anticipations
\* mutant: the slot is not reset
ResetValue_keep(get) == SlotOf(get)
\* the value a get_* writes back into its slot after it took its copy
ResetValue(get) == Default(get)

\* first statement of get_*: the local copy of the slot
GetRead(get) ==
    /\ phase = "live" /\ cpc = "idle"
    /\ cpc' = get
    /\ tmp' = SlotOf(get)
    /\ UNCHANGED <<handleV, slotV, bookV, envV, readerV, raised>>
\* second statement of get_*: the slot is reset, the copy is returned
GetReset(get) ==
    /\ cpc = get
    /\ cpc' = "idle"
    /\ tmp' = <<>>
    /\ last_action' = IF get = "get_action" THEN ResetValue(get) ELSE last_action
    /\ last_error' = IF get = "get_prediction_error" THEN ResetValue(get) ELSE last_error
    /\ last_derived' = IF get = "get_derived" THEN ResetValue(get) ELSE last_derived
    /\ anticipations' = IF get = "get_anticipations" THEN ResetValue(get) ELSE anticipations
    /\ UNCHANGED <<handleV, bookV, envV, readerV, raised>>

\* ------------------------------------------------------------------- stop
\* mutant: stop uses the process without testing that there is one
HasProcess_always(p) == TRUE
\* if self.process:
HasProcess(p) == p # "none"
\* mutant: a process that outlives the grace period is left alone
KillOnTimeout_never(timedOut) == FALSE
\* except subprocess.TimeoutExpired: self.process.kill()
KillOnTimeout(timedOut) == timedOut
\* running = False; terminate, wait one second, kill on timeout.
\* timedOut: the process is still there after the second of grace
StopProcess(timedOut) ==
    /\ phase = "live" /\ cpc = "idle"
    /\ timedOut => procState = "alive"
    /\ running' = FALSE
    /\ IF HasProcess(process) /\ process = "none"
       THEN \* None.terminate() raises AttributeError
            /\ raised' = TRUE /\ cpc' = "idle"
            /\ UNCHANGED procState
       ELSE /\ procState' = IF ~HasProcess(process) THEN procState
                            ELSE IF timedOut /\ ~KillOnTimeout(timedOut) THEN "alive"
                            ELSE "exited"
            /\ cpc' = "stop_log"
            /\ UNCHANGED raised
    /\ UNCHANGED <<phase, dialect, process, log_file, thread, slotV, bookV, stdin, wbuf, nout,
                   readerV, tmp>>
\* the log file is closed; dialect B's stop ends here
StopLog ==
    /\ cpc = "stop_log"
    /\ log_file' = IF log_file = "open" THEN "closed" ELSE log_file
    /\ cpc' = IF dialect = "A" THEN "stop_join" ELSE "idle"
    /\ UNCHANGED <<phase, dialect, process, running, thread, slotV, bookV, envV,
                   readerV, tmp, raised>>
\* dialect A: thread.join(timeout=1.0) returns, the reader finished or not
StopJoin ==
    /\ cpc = "stop_join"
    /\ cpc' = "idle"
    /\ UNCHANGED <<handleV, slotV, bookV, envV, readerV, tmp, raised>>

\* ------------------------------------------------- reader: _monitor_output
\* where the reader goes when it leaves its loop: dialect A kills the process
\* after the loop, dialect B has nothing after it
LoopExit == IF dialect = "A" THEN "after" ELSE "done"

\* while self.running
RLoop ==
    /\ rpc = "loop"
    /\ rpc' = IF running THEN "read" ELSE LoopExit
    /\ rcause' = IF ~running /\ rcause = "none" THEN "stop" ELSE rcause
    /\ UNCHANGED <<handleV, slotV, bookV, envV, rline, callerV>>
\* readline() returns a line of the process; an empty stripped line is skipped
RReadLine(line, limit) ==
    /\ rpc = "read" /\ procState = "alive" /\ nout < limit
    /\ nout' = nout + 1
    /\ IF Strip(line) = <<>>
       THEN rpc' = "loop" /\ UNCHANGED rline
       ELSE rpc' = "line" /\ rline' = Strip(line)
    /\ UNCHANGED <<handleV, slotV, bookV, procState, stdin, wbuf, rcause, callerV>>
\* readline() returns "" at end of stream: break
RReadEof ==
    /\ rpc = "read" /\ procState = "exited"
    /\ rpc' = LoopExit
    /\ rcause' = "eof"
    /\ UNCHANGED <<handleV, slotV, bookV, envV, rline, callerV>>
\* readline() raises: "ValueError" (a line that does not decode) or "OSError"
RReadError(exc, limit) ==
    /\ rpc = "read" /\ procState = "alive" /\ nout < limit
    /\ nout' = nout + 1
    /\ IF dialect = "A"
       THEN /\ rpc' = IF exc = "ValueError" THEN "loop" ELSE LoopExit
            /\ rcause' = IF exc = "ValueError" THEN rcause ELSE "error"
            /\ UNCHANGED running
       ELSE /\ rpc' = "loop"
            /\ rcause' = "error"
            /\ running' = FALSE
    /\ UNCHANGED <<phase, dialect, process, log_file, thread, slotV, bookV,
                   procState, stdin, wbuf, rline, callerV>>
\* mutant: a ValueError raised while a line is handled ends the loop
AfterLine_break(exc) == IF exc THEN "done" ELSE "loop"
\* where the reader goes after a line: the end of the body and
\* "except ValueError: continue" both lead back to the loop test
AfterLine(exc) == "loop"
\* the body of the loop for the line read: the log write, then the parsing
RLine ==
    /\ rpc = "line"
    /\ rline' = <<>>
    /\ IF log_file = "closed"
       THEN \* write on a closed file raises ValueError
            /\ rpc' = IF dialect = "A" THEN AfterLine(TRUE) ELSE "loop"
            /\ running' = IF dialect = "A" THEN running ELSE FALSE
            /\ rcause' = IF dialect = "A" THEN rcause ELSE "logerror"
            /\ UNCHANGED <<slotV, learned_rules, active_anticipation>>
       ELSE LET s == Slots(last_action, last_error, last_derived, anticipations)
                t == IF dialect = "A" THEN ParseA(rline, s, last_input_term)
                     ELSE ParseB(rline, s)
            IN  /\ rpc' = AfterLine(t.exc)
                /\ last_action' = t.act
                /\ last_error' = t.err
                /\ last_derived' = t.der
                /\ anticipations' = t.ant
                /\ learned_rules' =
                     IF dialect = "B" THEN LearnB(rline, learned_rules) ELSE learned_rules
                /\ active_anticipation' =
                     IF dialect = "B" THEN AnticipateB(rline, active_anticipation)
                     ELSE active_anticipation
                /\ UNCHANGED <<running, rcause>>
    /\ UNCHANGED <<phase, dialect, process, log_file, thread, last_input_term, history,
                   envV, callerV>>
\* dialect A, after the loop: if self.process: self.process.kill()
RAfter ==
    /\ rpc = "after"
    /\ rpc' = "done"
    /\ procState' = IF process = "proc" THEN "exited" ELSE procState
    /\ UNCHANGED <<handleV, slotV, bookV, stdin, wbuf, nout, rline, rcause, callerV>>

\* ------------------------------------------------------------ environment
\* the process exits by itself and its pipes close
ProcExit ==
    /\ phase = "live" /\ process = "proc" /\ procState = "alive"
    /\ procState' = "exited"
    /\ UNCHANGED <<handleV, slotV, bookV, stdin, wbuf, nout, readerV, callerV>>

\* ------------------------------------------------------ history variables
\* what a line adds by itself: its handling started from empty slots
Produced(line) ==
    IF dialect = "A" THEN ParseA(line, EmptySlots, last_input_term)
    ELSE ParseB(line, EmptySlots)
\* the step handles a line (the log write did not raise)
LineStep == rpc = "line" /\ log_file # "closed"
\* the step is the first / the second statement of a get_*
ReadStep(get) == cpc = "idle" /\ cpc' = get
ResetStep(get) == cpc = get /\ cpc' = "idle"

\* Each history relation is conjoined to the step it observes; what names the
\* step: "line" (RLine), "send" (Send, SendAction), "stop" (StopProcess), and
\* the caller's position before and after it for the two statements of a get_*.
AnyRead == \E get \in Gets : ReadStep(get)
AnyReset == \E get \in Gets : ResetStep(get)
HistGet(step) ==
    /\ fresh' = IF AnyReset THEN cpc
                ELSE IF step \in {"line", "send", "stop"} \/ AnyRead THEN "none" ELSE fresh
    /\ full' = IF AnyReset THEN tmp # Default(cpc)
               ELSE IF step \in {"line", "send", "stop"} \/ AnyRead THEN FALSE ELSE full
    /\ second' = IF AnyRead
                 THEN (IF fresh # cpc' THEN "no" ELSE IF full THEN "after_full" ELSE "after_empty")
                 ELSE IF AnyReset THEN "no" ELSE second
    /\ calm' = IF AnyRead THEN TRUE
               ELSE IF step = "line" \/ AnyReset THEN FALSE ELSE calm
HistLife(step) ==
    /\ broke' = (broke \/ (step = "send" /\ running /\ ~running'))
    /\ sendRaised' = (sendRaised \/ (step = "send" /\ last_error' # last_error))
\* the argument of the send, and the action id when send_action made the call
HistSend(narsese, viaAction, action_id) ==
    /\ idleSend' = (idleSend \/ ~running)
    /\ sentArgs' = IF running /\ WriteOk
                   THEN Append(sentArgs, [arg |-> narsese, viaAction |-> viaAction,
                                          id |-> action_id])
                   ELSE sentArgs
HistQ(step) ==
    /\ prodD' = IF step = "line" /\ LineStep THEN prodD \o Produced(rline).der ELSE prodD
    /\ prodN' = IF step = "line" /\ LineStep THEN prodN \o Produced(rline).ant ELSE prodN
    /\ retD' = IF ResetStep("get_derived") THEN retD \o tmp ELSE retD
    /\ retN' = IF ResetStep("get_anticipations") THEN retN \o tmp ELSE retN
\* the step is a send_input on a running handle of dialect B that is a surprise
SurpriseStep(step) ==
    /\ step = "send" /\ dialect = "B" /\ Len(history') = Len(history) + 1
    /\ SurpriseB(history'[Len(history')], active_anticipation)
\* the floor the step raises, 0 when it is no surprise
Raised(step) ==
    IF step = "line" /\ LineStep THEN Produced(rline).err
    ELSE IF SurpriseStep(step) THEN FloorB ELSE 0
HistS(step) ==
    /\ winMax' = IF ResetStep("get_prediction_error") THEN 0
                 ELSE Max(winMax, Raised(step))
    /\ nSurp' = IF ResetStep("get_prediction_error") THEN 0
                ELSE IF Raised(step) > 0 THEN Min(nSurp + 1, 2) ELSE nSurp
    /\ execWin' = IF ResetStep("get_action") THEN <<>>
                  ELSE IF step = "line" /\ LineStep /\ Produced(rline).act.some
                       THEN Append(execWin, Produced(rline).act.val)
                       ELSE execWin

\* ------------------------------------------------------- inputs explored
NL == "\n"
Dialect(a, b) == IF dialect = "A" THEN a ELSE b
Launches == {"ok", "FileNotFoundError", "PermissionError"}
ReadErrors == {"ValueError", "OSError"}
TickSentence == <<"<tick>", ".", ":|:">>
TockSentence == <<"<tock>", ".", ":|:", NL>>

\* ---------------------------------------------- Spec: the handle's life
\* Every operation of the handle, the reader, and the process exiting, with
\* one line per signal.
Lines ==
    Dialect({ <<"OUT:", "(^right,#1)!", "%1.00;0.58%", NL>>,
              <<"Anticipating:", "<y>", NL>> },
            { <<"OUT:", "<a>.", NL>>,
              <<"EXE:", "^left(x)", NL>>,
              <<"DISCONFIRM:", "<tock>", NL>>,
              <<"ANTICIPATE:", "<tock>", NL>> })
Sentences == { TickSentence }
ActionIds == {0}
Hist(step) ==
    /\ HistGet(step) /\ HistLife(step)
    /\ UNCHANGED <<histQV, histSV, histSendV, histParseV, histStopV, histExpectV, quantV, mapV>>

Next ==
    \/ /\ \E d \in Dialects, logOk \in BOOLEAN, launch \in Launches, alive \in BOOLEAN :
            Construct(d, logOk, launch, alive)
       /\ Hist("construct")
    \/ (\E narsese \in Sentences : Send(narsese)) /\ Hist("send")
    \/ (\E action_id \in ActionIds : SendAction(action_id)) /\ Hist("send")
    \/ (\E get \in Gets : GetRead(get)) /\ Hist("get")
    \/ (\E get \in Gets : GetReset(get)) /\ Hist("get")
    \/ (\E timedOut \in BOOLEAN : StopProcess(timedOut)) /\ Hist("stop")
    \/ StopLog /\ Hist("stop_log")
    \/ StopJoin /\ Hist("stop_join")
    \/ RLoop /\ Hist("loop")
    \/ (\E line \in Lines : RReadLine(line, MaxLines)) /\ Hist("readline")
    \/ RReadEof /\ Hist("readline")
    \/ (\E exc \in ReadErrors : RReadError(exc, MaxLines)) /\ Hist("readline")
    \/ RLine /\ Hist("line")
    \/ RAfter /\ Hist("after")
    \/ ProcExit /\ Hist("exit")

Spec == Init /\ [][Next]_vars

\* ------------------------- SpecQueues: the reader against the queue reads
LinesQueues ==
    Dialect({ <<"OUT:", "<a>.", "%1.00;0.20%", NL>>,
              <<"Derived:", "<tick>", "confidence=0.10", NL>>,
              <<"decision", "expectation=0.70", "implication:", "<x>", NL>>,
              <<"Anticipating:", "<y>", NL>> },
            { <<"OUT:", "<a>.", NL>>,
              <<"Answer:", "<b>.", NL>> })
GetsQueues == {"get_derived", "get_anticipations"}
HistQueues(step) ==
    /\ HistQ(step)
    /\ UNCHANGED <<histGetV, histLifeV, histSV, histSendV, histParseV, histStopV, histExpectV, quantV, mapV>>

NextQueues ==
    \/ (\E d \in Dialects : Construct(d, TRUE, "ok", TRUE)) /\ HistQueues("construct")
    \/ (\E get \in GetsQueues : GetRead(get)) /\ HistQueues("get")
    \/ (\E get \in GetsQueues : GetReset(get)) /\ HistQueues("get")
    \/ RLoop /\ HistQueues("loop")
    \/ (\E line \in LinesQueues : RReadLine(line, MaxLinesGet)) /\ HistQueues("readline")
    \/ RLine /\ HistQueues("line")

SpecQueues == Init /\ [][NextQueues]_vars

\* ----------------------- SpecScalars: the reader and send against the
\* reads of the two scalar slots
LinesScalars ==
    Dialect({ <<"^left", "executed", "with", "args", "x", NL>>,
              <<"OUT:", "(^right,#1)!", "%1.00;0.58%", NL>>,
              <<"Derived:", "<tick>", "confidence=0.50", NL>> },
            { <<"EXE:", "^left(x)", NL>>,
              <<"EXE:", "^right", NL>>,
              <<"DISCONFIRM:", "<tock>", NL>>,
              <<"ANTICIPATE:", "<tock>", NL>> })
SentencesScalars == { TickSentence, TockSentence }
GetsScalars == {"get_action", "get_prediction_error"}
HistScalars(step) ==
    /\ HistS(step) /\ HistGet(step)
    /\ UNCHANGED <<histLifeV, histQV, histSendV, histParseV, histStopV, histExpectV, quantV, mapV>>

NextScalars ==
    \/ (\E d \in Dialects : Construct(d, TRUE, "ok", TRUE)) /\ HistScalars("construct")
    \/ (\E narsese \in SentencesScalars : Send(narsese)) /\ HistScalars("send")
    \/ (\E get \in GetsScalars : GetRead(get)) /\ HistScalars("get")
    \/ (\E get \in GetsScalars : GetReset(get)) /\ HistScalars("get")
    \/ RLoop /\ HistScalars("loop")
    \/ (\E line \in LinesScalars : RReadLine(line, MaxLinesGet)) /\ HistScalars("readline")
    \/ RLine /\ HistScalars("line")

SpecScalars == Init /\ [][NextScalars]_vars

\* ------------------------------ SpecSend: what send and send_action write
\* The whole life of the handle without the get_* calls, with sentences that
\* end with no, one and two newlines and every kind of action id.
MaxLinesSend == 1
LinesSend ==
    Dialect({ <<"Anticipating:", "<y>", NL>> },
            { <<"ANTICIPATE:", "<tock>", NL>> })
SentencesSend == { TickSentence, TockSentence, <<"<a>.", NL, NL>>, <<>> }
ActionIdsSend == -1..8
HistNoSend ==
    UNCHANGED <<histGetV, histLifeV, histQV, histSV, histSendV, histParseV, histStopV, histExpectV, quantV, mapV>>
HistSendCall(narsese, viaAction, action_id) ==
    /\ HistSend(narsese, viaAction, action_id)
    /\ UNCHANGED <<histGetV, histLifeV, histQV, histSV, histParseV, histStopV, histExpectV, quantV, mapV>>

NextSend ==
    \/ /\ \E d \in Dialects, logOk \in BOOLEAN, launch \in Launches, alive \in BOOLEAN :
            Construct(d, logOk, launch, alive)
       /\ HistNoSend
    \/ \E narsese \in SentencesSend : Send(narsese) /\ HistSendCall(narsese, FALSE, 0)
    \/ \E action_id \in ActionIdsSend :
            /\ SendAction(action_id)
            /\ HistSendCall(GoalSentence(get_op_for_id(action_id)), TRUE, action_id)
    \/ (\E timedOut \in BOOLEAN : StopProcess(timedOut)) /\ HistNoSend
    \/ StopLog /\ HistNoSend
    \/ StopJoin /\ HistNoSend
    \/ RLoop /\ HistNoSend
    \/ (\E line \in LinesSend : RReadLine(line, MaxLinesSend)) /\ HistNoSend
    \/ RReadEof /\ HistNoSend
    \/ (\E exc \in ReadErrors : RReadError(exc, MaxLinesSend)) /\ HistNoSend
    \/ RLine /\ HistNoSend
    \/ RAfter /\ HistNoSend
    \/ ProcExit /\ HistNoSend

SpecSend == Init /\ [][NextSend]_vars

\* --------------------------- SpecParse: the reader against every line shape
\* Lines of no recognised shape, lines whose number is not one, and lines
\* that are well formed, on a handle that may be stopped meanwhile.
MaxLinesParse == 2
PlainLine == <<"hello", "world", NL>>
BadNumberLines ==
    Dialect({ <<"OUT:", "(^right,#1)!", "%1.00;0.5.8%", NL>>,
              <<"decision", "expectation=-", "implication:", "<x>", NL>>,
              <<"Derived:", "<tick>", "confidence=.", NL>> },
            { <<"OUT:", "<a>.", "%1.00;0.5.8%", NL>> })
LinesParse ==
    {PlainLine} \cup BadNumberLines
    \cup Dialect({ <<"OUT:", "<a>.", "%1.00;0.58%", NL>> }, { <<"EXE:", "^left(x)", NL>> })
HistParse(step) ==
    /\ handled' = IF step = "line" THEN Append(handled, rline) ELSE handled
    /\ UNCHANGED <<histGetV, histLifeV, histQV, histSV, histSendV, histStopV, histExpectV, quantV, mapV>>

NextParse ==
    \/ (\E d \in Dialects, logOk \in BOOLEAN : Construct(d, logOk, "ok", TRUE))
       /\ HistParse("construct")
    \/ Send(TickSentence) /\ HistParse("send")
    \/ (\E timedOut \in BOOLEAN : StopProcess(timedOut)) /\ HistParse("stop")
    \/ StopLog /\ HistParse("stop_log")
    \/ StopJoin /\ HistParse("stop_join")
    \/ RLoop /\ HistParse("loop")
    \/ (\E line \in LinesParse : RReadLine(line, MaxLinesParse)) /\ HistParse("readline")
    \/ RLine /\ HistParse("line")
    \/ RAfter /\ HistParse("after")

SpecParse == Init /\ [][NextParse]_vars
\* ------------------------ SpecOut: the reader against output-tagged lines
\* Output lines with and without an operation, with a confidence above, at
\* and below the threshold, with none and with a malformed one, with the
\* legacy marker, with no content; executions of a token with and without
\* a caret. The handle is not stopped and its log stays open.
MaxLinesOut == 2
LinesOut ==
    Dialect({ <<"OUT:", "<a>.", NL>>,
              <<"OUT:", "<a>.", "%1.00;0.58%", NL>>,
              <<"OUT:", "<a>.", "%1.00;0.30%", NL>>,
              <<"OUT:", "<a>.", "%1.00;0.20%", NL>>,
              <<"OUT:", "(^right,#1)!", "%1.00;0.58%", NL>>,
              <<"OUT:", "<a>.", "%1.00;0.5.8%", NL>>,
              <<"OUT:", "<a>.", "Derived", "confidence=0.50", NL>> },
            { <<"OUT:", "<a>.", NL>>,
              <<"Answer:", "<b>.", NL>>,
              <<"OUT:", NL>>,
              <<"EXE:", "^left(x)", NL>>,
              <<"EXE:", "left", NL>> })
NextOut ==
    \/ (\E d \in Dialects, logOk \in BOOLEAN : Construct(d, logOk, "ok", TRUE))
       /\ HistParse("construct")
    \/ RLoop /\ HistParse("loop")
    \/ (\E line \in LinesOut : RReadLine(line, MaxLinesOut)) /\ HistParse("readline")
    \/ RLine /\ HistParse("line")

SpecOut == Init /\ [][NextOut]_vars

\* ------------- SpecMismatch: sends against expectations, in dialect B
\* A running handle whose engine announces an expectation, with and without
\* a term, and a rule; sentences whose term is the expected one, another
\* one, an operation, and none.
MaxLinesMismatch == 2
MaxSendsMismatch == 3
BoomSentence == <<"<boom>", ".", ":|:">>
LinesMismatch ==
    { <<"ANTICIPATE:", "<tock>", NL>>,
      <<"ANTICIPATE:", NL>>,
      <<"OUT:", "<<tick>", "=/>", "<tock>>.", NL>> }
SentencesMismatch ==
    { TickSentence, TockSentence, BoomSentence, <<"^left", ".", ":|:">>, <<>> }
NextMismatch ==
    \/ (\E logOk \in BOOLEAN : Construct("B", logOk, "ok", TRUE)) /\ HistParse("construct")
    \/ /\ Len(history) < MaxSendsMismatch
       /\ \E narsese \in SentencesMismatch : SendBody(narsese)
       /\ HistParse("send")
    \/ RLoop /\ HistParse("loop")
    \/ (\E line \in LinesMismatch : RReadLine(line, MaxLinesMismatch))
       /\ HistParse("readline")
    \/ RLine /\ HistParse("line")

SpecMismatch == Init /\ [][NextMismatch]_vars

\* ------------- SpecExpect: training and probing a handle of dialect B
\* A caller that sends tick, tock and boom in any order and reads the
\* prediction error at any time, as verify_all.py trains and then probes;
\* the engine prints nothing.
MaxSendsExpect == 8
SentencesExpect == { TickSentence, TockSentence, BoomSentence }
HistExpect ==
    /\ sinceReset' = IF ResetStep("get_prediction_error") THEN 0
                     ELSE IF Len(history') > Len(history) THEN Min(sinceReset + 1, 3)
                     ELSE sinceReset
    /\ UNCHANGED <<histGetV, histLifeV, histQV, histSV, histSendV, histParseV, histStopV,
                   quantV, mapV>>
NextExpect ==
    \/ (\E logOk \in BOOLEAN : Construct("B", logOk, "ok", TRUE)) /\ HistExpect
    \/ /\ Len(history) < MaxSendsExpect
       /\ \E narsese \in SentencesExpect : SendBody(narsese)
       /\ HistExpect
    \/ GetRead("get_prediction_error") /\ HistExpect
    \/ GetReset("get_prediction_error") /\ HistExpect

SpecExpect == Init /\ [][NextExpect]_vars

\* --------------------------------- SpecStop: stop in every handle state
\* The whole life of the handle, with a process that may outlive the grace
\* period of stop, and stop called again and again.
MaxStops == 2
\* the step is the return of stop
StopReturn == cpc \in {"stop_log", "stop_join"} /\ cpc' = "idle"
HistStop ==
    /\ nStops' = IF StopReturn THEN Min(nStops + 1, MaxStops) ELSE nStops
    /\ stopWaited' = IF StopReturn
                     THEN (cpc = "stop_join" \/ thread = "none" \/ rpc = "done")
                     ELSE stopWaited
    /\ UNCHANGED <<histGetV, histLifeV, histQV, histSV, histSendV, histParseV, histExpectV,
                   quantV, mapV>>

NextStop ==
    \/ /\ \E d \in Dialects, logOk \in BOOLEAN, launch \in Launches, alive \in BOOLEAN :
            Construct(d, logOk, launch, alive)
       /\ HistStop
    \/ Send(TickSentence) /\ HistStop
    \/ (\E timedOut \in BOOLEAN : StopProcess(timedOut)) /\ HistStop
    \/ StopLog /\ HistStop
    \/ StopJoin /\ HistStop
    \/ RLoop /\ HistStop
    \/ (\E line \in LinesSend : RReadLine(line, MaxLinesSend)) /\ HistStop
    \/ RReadEof /\ HistStop
    \/ (\E exc \in ReadErrors : RReadError(exc, MaxLinesSend)) /\ HistStop
    \/ RLine /\ HistStop
    \/ RAfter /\ HistStop
    \/ ProcExit /\ HistStop

SpecStop == Init /\ [][NextStop]_vars
\* the reader thread is scheduled: each step it can take, it takes in the end;
\* a readline on a process that is exited returns the end of the stream
ReaderFair ==
    /\ WF_vars(RLoop /\ HistStop) /\ WF_vars(RReadEof /\ HistStop)
    /\ WF_vars(RLine /\ HistStop) /\ WF_vars(RAfter /\ HistStop)
SpecStopFair == SpecStop /\ ReaderFair

\* ------------------------------------------------ quantizer: DynamicEventMap
\* mutant: symbols are numbered from 1
get_id_next(index) == <<"event", index + 1>>
\* _get_id(index): the symbol f"event_{index}"
get_id(index) == <<"event", index>>
RECURSIVE SumSq(_, _, _)
SumSq(p, v, k) ==
    IF k = 0 THEN 0 ELSE (p[k] - v[k]) * (p[k] - v[k]) + SumSq(p, v, k - 1)
\* np.linalg.norm(p - vector), squared
Dist2(p, v) == SumSq(p, v, Len(v))
\* mutant: an equal distance found later replaces the one found first
Better_orEqual(x, y) == x <= y
\* np.argmin keeps the first of the least values
Better(x, y) == x < y
RECURSIVE ArgMinFrom(_, _, _)
ArgMinFrom(d, i, best) ==
    IF i > Len(d) THEN best
    ELSE ArgMinFrom(d, i + 1, IF Better(d[i], d[best]) THEN i ELSE best)
argmin(d) == ArgMinFrom(d, 2, 1)
\* mutant: a distance equal to the vigilance matches
Matches_orEqual(min_dist2, vig) == vig > 0 /\ min_dist2 <= vig * vig
\* min_dist < self.vigilance, on the squared distance
Matches(min_dist2, vig) == vig > 0 /\ min_dist2 < vig * vig
\* mutant: the matched prototype stays where it is
Adapt_none(p, v) == p
\* p + learning_rate * (vector - p)
Adapt(p, v) == [k \in 1..Len(p) |-> p[k] + (v[k] - p[k]) \div LearningRateDen]
\* the step of the adaptation is a whole number of ten-thousandths
ExactAdapt(p, v) == \A k \in 1..Len(p) : (v[k] - p[k]) % LearningRateDen = 0

\* mutant: a match is not counted
Used_same(count) == count
\* self.usage_counts[min_dist_idx] += 1
Used(count) == count + 1
\* _add_prototype(vector, step)
add_prototype(vector, step) ==
    /\ prototypes' = Append(prototypes, vector)
    /\ usage_counts' = Append(usage_counts, 1)
    /\ last_used' = Append(last_used, step)
    /\ qret' = get_id(Len(prototypes))
\* quantize(vector, current_step)
Quantize(vector, current_step) ==
    /\ qlast' = [op |-> "quantize", vector |-> vector]
    /\ QCall(current_step, 0)
    /\ IF Len(prototypes) = 0
       THEN add_prototype(vector, current_step)
       ELSE LET distances == [i \in 1..Len(prototypes) |-> Dist2(prototypes[i], vector)]
                min_dist_idx == argmin(distances)
                min_dist == distances[min_dist_idx]
            IN  IF Matches(min_dist, vigilance)
                THEN /\ ExactAdapt(prototypes[min_dist_idx], vector)
                     /\ prototypes' = [prototypes EXCEPT ![min_dist_idx] = Adapt(@, vector)]
                     /\ usage_counts' = [usage_counts EXCEPT ![min_dist_idx] = Used(@)]
                     /\ last_used' = [last_used EXCEPT ![min_dist_idx] = current_step]
                     /\ qret' = get_id(min_dist_idx - 1)
                ELSE add_prototype(vector, current_step)
    /\ UNCHANGED <<vigilance, persistV, bridgeV, mapV>>
\* mutant: a prototype exactly at the threshold is stale
Kept_strict(current_step, last, age_threshold) == current_step - last < age_threshold
\* if current_step - last <= age_threshold: keep
Kept(current_step, last, age_threshold) == current_step - last <= age_threshold
RECURSIVE KeepFrom(_, _, _)
\* keep_indices: the indices from i on whose age is within the threshold
KeepFrom(i, current_step, age_threshold) ==
    IF i > Len(last_used) THEN <<>>
    ELSE (IF Kept(current_step, last_used[i], age_threshold) THEN <<i>> ELSE <<>>)
         \o KeepFrom(i + 1, current_step, age_threshold)
\* mutant: the list is rebuilt from the last kept index to the first
Rebuild_reversed(list, keep_indices) ==
    [k \in 1..Len(keep_indices) |-> list[keep_indices[Len(keep_indices) + 1 - k]]]
\* [list[i] for i in keep_indices]
Rebuild(list, keep_indices) == [k \in 1..Len(keep_indices) |-> list[keep_indices[k]]]
\* prune(current_step, age_threshold)
Prune(current_step, age_threshold) ==
    LET keep_indices == KeepFrom(1, current_step, age_threshold)
        removed_count == Len(last_used) - Len(keep_indices)
    IN  /\ IF removed_count > 0
           THEN /\ prototypes' = Rebuild(prototypes, keep_indices)
                /\ usage_counts' = Rebuild(usage_counts, keep_indices)
                /\ last_used' = Rebuild(last_used, keep_indices)
           ELSE UNCHANGED <<prototypes, usage_counts, last_used>>
        /\ qret' = <<>>
        /\ qlast' = [op |-> "prune", vector |-> <<>>]
        /\ QCall(current_step, age_threshold)
        /\ UNCHANGED <<vigilance, persistV, bridgeV, mapV>>
\* mutant: the decayed vigilance is stored as it is
Floored_none(x) == x
\* max(0.01, x)
Floored(x) == Max(VigilanceFloor, x)
\* mutant: every error lowers the vigilance
Surprised_always(error) == TRUE
\* if error > 0
Surprised(error) == error > 0
\* adjust_vigilance(error), error in hundredths
AdjustVigilance(error) ==
    /\ vigilance' = IF Surprised(error)
                    THEN Floored(vigilance - DecayPerError * error)
                    ELSE vigilance
    /\ qret' = <<>>
    /\ qlast' = [op |-> "adjust", vector |-> <<>>]
    /\ QCall(0, error)
    /\ UNCHANGED <<prototypes, usage_counts, last_used, persistV, bridgeV, mapV>>

\* DynamicEventMap(): a new quantizer; the file stays
NewQuantizer ==
    /\ prototypes' = <<>> /\ usage_counts' = <<>> /\ last_used' = <<>>
    /\ vigilance' = InitVigilance
    /\ qret' = <<>>
    /\ qlast' = [op |-> "new", vector |-> <<>>]
    /\ QCall(0, 0)
    /\ UNCHANGED <<persistV, bridgeV, mapV>>
\* mutant: the blob has no vigilance item
Dump_noVigilance(data) ==
    << <<"prototypes", data.prototypes>>,
       <<"usage_counts", data.usage_counts>>, <<"last_used", data.last_used>> >>
\* pickle.dump(data, f): the items of the dict in insertion order
Dump(data) ==
    << <<"prototypes", data.prototypes>>, <<"vigilance", data.vigilance>>,
       <<"usage_counts", data.usage_counts>>, <<"last_used", data.last_used>> >>
\* pickle.load(f): the dict of the items
Undump(blob) ==
    [key \in { blob[i][1] : i \in 1..Len(blob) } |->
        blob[CHOOSE i \in 1..Len(blob) : blob[i][1] = key][2]]
\* mutant: the stored value is ignored
Get_default(data, key, default) == default
\* data.get(key, default)
Get(data, key, default) == IF key \in DOMAIN data THEN data[key] ELSE default
\* save(filename)
Save ==
    /\ file' = Dump(QState)
    /\ saved' = QState
    /\ qret' = <<>>
    /\ qlast' = [op |-> "save", vector |-> <<>>]
    /\ QCall(0, 0)
    /\ UNCHANGED <<prototypes, usage_counts, last_used, vigilance, bridgeV, mapV>>
\* what load returns: None, whether the file was found or not
LoadReturn(found) == <<>>
\* load(filename)
Load ==
    /\ IF file = NoFile
       THEN UNCHANGED <<prototypes, usage_counts, last_used, vigilance>>
       ELSE LET data == Undump(file)
                zeros == [i \in 1..Len(prototypes') |-> 0]
            IN  /\ prototypes' = Get(data, "prototypes", <<>>)
                /\ vigilance' = Get(data, "vigilance", InitVigilance)
                /\ usage_counts' = Get(data, "usage_counts", zeros)
                /\ last_used' = Get(data, "last_used", zeros)
    /\ qret' = LoadReturn(file # NoFile)
    /\ qlast' = [op |-> "load", vector |-> <<>>]
    /\ QCall(0, 0)
    /\ UNCHANGED <<persistV, bridgeV, mapV>>

\* ----------------------------------------------- SpecMap: the ActionMapper
\* map_action(nars_op)
MapAction(nars_op) ==
    /\ mret' = map_action(tables.mapping, nars_op)
    /\ mcall' = [op |-> "map_action", arg |-> nars_op]
    /\ UNCHANGED <<tables, bridgeV, quantV>>
\* get_op_for_id(action_id)
GetOpForId(action_id) ==
    /\ mret' = get_op_for_id(action_id)
    /\ mcall' = [op |-> "get_op_for_id", arg |-> action_id]
    /\ UNCHANGED <<tables, bridgeV, quantV>>
\* names: the configured ones, some that are not, and the empty string, each
\* with and without white space around it
Pads == { <<>>, <<" ">>, <<"\n">>, <<"\t", " ">> }
Cores ==
    { <<mapping[i][1]>> : i \in 1..Len(mapping) } \cup
    { <<>>, <<"left">>, <<"^LEFT">>, <<"^jump">>, <<"^le", " ", "ft">> }
Names == { l \o c \o r : l \in Pads, c \in Cores, r \in Pads }
\* map_action(get_op_for_id(action_id)): the second call, on the name that
\* get_op_for_id has just returned
MapActionOfOp ==
    /\ mcall.op = "get_op_for_id"
    /\ mret' = map_action(tables.mapping, <<mret>>)
    /\ mcall' = [op |-> "map_action(get_op_for_id)", arg |-> mcall.arg]
    /\ UNCHANGED <<tables, bridgeV, quantV>>
\* get_op_for_id(map_action(nars_op)): the second call, on the id that
\* map_action has just returned
GetOpForIdOfMap ==
    /\ mcall.op = "map_action"
    /\ mret' = get_op_for_id(mret)
    /\ mcall' = [op |-> "get_op_for_id(map_action)", arg |-> mcall.arg]
    /\ UNCHANGED <<tables, bridgeV, quantV>>
NextMap ==
    \/ \E nars_op \in Names : MapAction(nars_op)
    \/ \E action_id \in ActionIdsSend : GetOpForId(action_id)
    \/ MapActionOfOp
    \/ GetOpForIdOfMap
SpecMap == Init /\ [][NextMap]_vars

\* ------------------------------------------- SpecQuant: the quantizer's life
\* Two vectors 0.6 apart, one at 0.3 of both and one at exactly 0.5 of
\* both; ticks and ages at the pruning threshold and beyond it.
MaxTick == 1
Vectors == { <<0, 0>>, <<6000, 0>>, <<3000, 0>>, <<3000, 4000>> }
Ticks == 0..MaxTick
AgeThresholds == {0}
Errors == {-30, 0, 500}

MaxCalls == 4
HistQuant == ncalls < MaxCalls /\ ncalls' = ncalls + 1

NextQuant ==
    \/ (\E vector \in Vectors, current_step \in Ticks : Quantize(vector, current_step))
       /\ HistQuant
    \/ (\E current_step \in Ticks, age_threshold \in AgeThresholds :
            Prune(current_step, age_threshold))
       /\ HistQuant
    \/ (\E error \in Errors : AdjustVigilance(error)) /\ HistQuant

SpecQuant == Init /\ [][NextQuant]_vars

\* ------------------------------- SpecPersist: the quantizer and its file
\* Two vectors more than the vigilance apart, a prune that removes what was
\* not used at the current tick, and an error that halves the vigilance.
VectorsP == { <<0, 0>>, <<3000, 4000>> }
ErrorsP == {0, 500}
MaxCallsP == 5
HistPersist == ncalls < MaxCallsP /\ ncalls' = ncalls + 1

NextPersist ==
    \/ (\E vector \in VectorsP, current_step \in Ticks : Quantize(vector, current_step))
       /\ HistPersist
    \/ (\E current_step \in Ticks, age_threshold \in AgeThresholds :
            Prune(current_step, age_threshold))
       /\ HistPersist
    \/ (\E error \in ErrorsP : AdjustVigilance(error)) /\ HistPersist
    \/ Save /\ HistPersist
    \/ Load /\ HistPersist
    \/ NewQuantizer /\ HistPersist

SpecPersist == Init /\ [][NextPersist]_vars

\* ------------------------------------------------------------- properties
SendCall ==
    \/ \E narsese \in Sentences : Send(narsese)
    \/ \E action_id \in ActionIds : SendAction(action_id)
\* a caller operation other than get_*
CallerOther ==
    SendCall \/ (\E timedOut \in BOOLEAN : StopProcess(timedOut)) \/ StopLog \/ StopJoin
\* a statement of stop
StopStep == (\E timedOut \in BOOLEAN : StopProcess(timedOut)) \/ StopLog \/ StopJoin
RECURSIVE IsSubseq(_, _)
\* s is t with some elements left out
IsSubseq(s, t) ==
    IF s = <<>> THEN TRUE
    ELSE IF t = <<>> THEN FALSE
    ELSE IF Head(s) = Head(t) THEN IsSubseq(Tail(s), Tail(t))
    ELSE IsSubseq(s, Tail(t))
\* the operation of the last executed-action line since the last action reset
LastExec == IF execWin = <<>> THEN None ELSE Some(execWin[Len(execWin)])

\* C1 (SpecQueues): every statement the reader appended is either still in
\* its queue or was returned by one get_* call: what the calls returned,
\* followed by the queue, is what the lines produced.
C1_ExactlyOnce ==
    /\ retD \o last_derived = prodD
    /\ retN \o anticipations = prodN

\* C2 (SpecScalars): when a get_* resets its scalar slot, the value it erases
\* is the one it returns (for the error: not above the one it returns), or
\* the slot keeps it.
C2_AtomicReadReset ==
    [][/\ ResetStep("get_action") => (last_action = tmp \/ last_action' = last_action)
       /\ ResetStep("get_prediction_error") =>
            (last_error <= tmp \/ last_error' = last_error)]_vars

\* C3 (Spec): a get_* that no line disturbs returns the value of its slot; a
\* get_* that starts right after the same get_* returned, with no line handled
\* and no send in between, returns the empty default; and right after a get_*
\* returned its slot holds the empty default.
C3_SignalReset ==
    /\ (cpc \in Gets /\ calm) => tmp = SlotOf(cpc)
    /\ (cpc \in Gets /\ second # "no") => tmp = Default(cpc)
    /\ fresh \in Gets => SlotOf(fresh) = Default(fresh)
\* a stopped handle whose get_derived returned a statement is read again
C3_Witness ==
    /\ cpc = "get_derived" /\ second = "after_full" /\ tmp = <<>>
    /\ ~running /\ log_file = "closed"

\* C4 (SpecQueues): what successive get_derived calls returned, followed by
\* what is queued, lists statements in the order the lines produced them;
\* the same for the anticipations.
C4_OrderPreserved ==
    /\ IsSubseq(retD \o last_derived, prodD)
    /\ IsSubseq(retN \o anticipations, prodN)
\* two different statements were returned, a third one is queued
C4_Witness ==
    /\ Len(retD) = 2 /\ retD[1] # retD[2]
    /\ Len(last_derived) = 1 /\ cpc = "idle"

\* C5 (SpecScalars): the prediction error is the largest floor raised since
\* its last reset, never negative, and only the reset of
\* get_prediction_error lowers it.
C5_MaxAccumulation ==
    /\ [](last_error = winMax /\ last_error >= 0)
    /\ [][ResetStep("get_prediction_error") \/ last_error' >= last_error]_vars
\* two surprises in one window of dialect A: the error is the floor, not the sum
C5_Witness == dialect = "A" /\ nSurp = 2 /\ last_error = FloorA

\* C6 (SpecScalars): the last-action slot holds the operation of the last
\* executed-action line handled since its last reset; an undisturbed
\* get_action returns it, and the get_action right after returns None.
C6_LastWriterWins ==
    /\ last_action = LastExec
    /\ (cpc = "get_action" /\ calm) => tmp = LastExec
    /\ (cpc = "get_action" /\ second # "no") => tmp = None
\* two lines with different operations, then get_action returns the second
C6_Witness ==
    /\ cpc = "get_action" /\ calm /\ Len(execWin) = 2
    /\ execWin[1] # execWin[2] /\ tmp = Some(execWin[2])

C8_ReaderExitStopsHandle ==
    (rpc = "done" /\ rcause \in {"eof", "error"}) => ~running

\* C9 (Spec): a send whose write fails returns without raising and leaves the
\* handle not running; a handle that is not running stays so and nothing more
\* is written to the process.
C9_BrokenPipe ==
    /\ [](broke => (~running /\ ~raised))
    /\ [][/\ (SendCall /\ running /\ ~WriteOk) => (~running' /\ ~raised')
          /\ (phase = "live" /\ ~running) => (~running' /\ stdin' = stdin)]_vars
\* a write failed after construction and the caller is back
C9_Witness == broke /\ ~running /\ cpc = "idle" /\ thread = "started"

\* C10 (Spec): a handle constructed when the process could not be launched is
\* not running, has no process and no reader, and nothing was raised.
C10_LaunchFailureSafe ==
    (phase # "new" /\ process = "none") =>
        (phase = "live" /\ ~raised /\ ~running /\ thread = "none")

\* C11 (SpecSend): a send on a constructed handle that is not running writes
\* nothing and changes neither the handle, the four slots nor the
\* bookkeeping of either dialect.
C11_SendNotRunningNoOp ==
    [][((\E narsese \in SentencesSend : Send(narsese)) /\ phase = "live" /\ ~running)
         => UNCHANGED <<handleV, slotV, bookV, stdin, wbuf>>]_vars
\* a handle that had sent a sentence stopped running and send was called again
C11_Witness == idleSend /\ ~running /\ Len(sentArgs) > 0 /\ cpc = "idle"

\* C12 (SpecParse): whatever line the reader handles, it returns to the test
\* of its loop and the running flag is what it was; a line of no recognised
\* shape leaves the four slots as they were.
C12_IgnoreAndContinue ==
    [][(rpc = "line" /\ rpc' # "line") =>
         /\ rpc' = "loop" /\ running' = running
         /\ rline = Strip(PlainLine) => UNCHANGED slotV]_vars
\* a line with a malformed number and a line of no known shape were handled,
\* and the reader is reading on
C12_Witness ==
    /\ Len(handled) = 2 /\ handled[1] \in {Strip(l) : l \in BadNumberLines}
    /\ handled[2] = Strip(PlainLine)
    /\ rpc = "read" /\ running

\* C13 (SpecStop): once stop has returned on a handle with a process, the
\* handle is not running, the process is gone (terminated, or killed after
\* the grace period), the log is not open, and stop returned after a join
\* or with no reader alive.
C13_StopComplete ==
    (nStops > 0 /\ process = "proc") =>
        (~running /\ procState = "exited" /\ log_file # "open" /\ stopWaited)

\* C14 (SpecStop): no call on a constructed handle raises, whatever state
\* stop finds it in; and a stop made after a stop has returned changes
\* nothing of the handle, its slots, its bookkeeping or its process.
C14_StopAlwaysSafe ==
    /\ [](phase = "live" => ~raised)
    /\ [][(nStops > 0 /\ StopStep) =>
            (~running' /\ log_file' # "open"
             /\ UNCHANGED <<handleV, slotV, bookV, procState, stdin, wbuf>>)]_vars
\* stop returned twice on a handle whose process had exited by itself and
\* whose reader had seen the end of the stream
C14_Witness ==
    /\ nStops = 2 /\ cpc = "idle" /\ process = "proc" /\ rcause = "eof"
    /\ ~running /\ log_file = "closed"

\* C15 (Spec): in both dialects, when the reader handles an
\* anticipation-tagged line, the anticipation queue grows by one pair whose
\* statement is taken from the line.
C15_AnticipationQueued ==
    [][(LineStep /\ rpc' = "loop"
        /\ FindTok(rline, {"Anticipating:", "ANTICIPATE:"}) > 0)
         => /\ Len(anticipations') = Len(anticipations) + 1
            /\ SubSeq(anticipations', 1, Len(anticipations)) = anticipations]_vars

ReverseOp(action_id) ==
    IF \E i \in 1..Len(mapping) : mapping[i][2] = action_id
    THEN mapping[CHOOSE i \in 1..Len(mapping) :
                   /\ mapping[i][2] = action_id
                   /\ \A j \in 1..(i - 1) : mapping[j][2] # action_id][1]
    ELSE "^wait"
\* C17 (SpecSend): send_action(id) on a running handle delivers exactly one
\* line, the goal sentence of the operation the reverse mapping gives the id
\* (^wait for an unmapped id); on a handle that is not running, or whose
\* pipe is broken, it delivers nothing.
C17_SendActionGoal ==
    [][\A action_id \in ActionIdsSend :
         (SendAction(action_id) /\ phase = "live") =>
            stdin' = IF running /\ WriteOk
                     THEN Append(stdin, <<"<(*,{SELF})", "-->",
                                          GoalTok(ReverseOp(action_id)), ":|:", NL>>)
                     ELSE stdin]_vars
\* send_action(0) was called and the goal for ^left arrived
C17_Witness ==
    /\ Len(sentArgs) = 1 /\ sentArgs[1].viaAction /\ sentArgs[1].id = 0
    /\ stdin[2] = <<"<(*,{SELF})", "-->", "^left>!", ":|:", NL>>

\* C18 (SpecStop): a constructed handle has a reader exactly when it has a
\* process, whether or not the constructor's first line was delivered.
C18_ReaderIffLaunched ==
    phase = "live" => (thread = "started" <=> process = "proc")

\* prototype i is at the least distance from v
Nearest(i, v) ==
    \A j \in 1..Len(prototypes) : Dist2(prototypes[i], v) <= Dist2(prototypes[j], v)
LowestNearest(v) ==
    CHOOSE i \in 1..Len(prototypes) : Nearest(i, v) /\ \A j \in 1..(i - 1) : ~Nearest(j, v)
\* some prototype is at a distance from v strictly below the vigilance
Under(v) ==
    \E i \in 1..Len(prototypes) : Dist2(prototypes[i], v) < vigilance * vigilance

\* C19 (SpecQuant): when some prototype is strictly nearer to the vector than
\* the vigilance, quantize returns the symbol of the nearest prototype, the
\* one of lowest index among equally near ones, and that prototype alone is
\* adapted; the state after the call is a function of the state before it
\* and of the arguments.
C19_NearestLowestIndex ==
    [][\A v \in Vectors, t \in Ticks :
         (Quantize(v, t) /\ prototypes # <<>> /\ Under(v)) =>
            LET i == LowestNearest(v)
            IN  /\ qret' = <<"event", i - 1>>
                /\ prototypes' = [prototypes EXCEPT ![i] = Adapt(@, v)]
                /\ usage_counts' = [usage_counts EXCEPT ![i] = @ + 1]
                /\ last_used' = [last_used EXCEPT ![i] = t]
                /\ vigilance' = vigilance]_vars
\* a vector at 0.3 of both prototypes matched the first one
C19_Witness ==
    /\ qlast = [op |-> "quantize", vector |-> <<3000, 0>>]
    /\ prototypes = << <<300, 0>>, <<6000, 0>> >>
    /\ usage_counts = <<2, 1>> /\ qret = <<"event", 0>>

\* C20 (SpecQuant): when there is no prototype, or none is strictly nearer to
\* the vector than the vigilance, quantize appends the vector with usage 1
\* and the given tick, changes nothing else, and returns the symbol whose
\* index is the number of prototypes before the call.
C20_NoveltyCreatesOne ==
    [][\A v \in Vectors, t \in Ticks :
         (Quantize(v, t) /\ (prototypes = <<>> \/ ~Under(v))) =>
            /\ prototypes' = Append(prototypes, v)
            /\ usage_counts' = Append(usage_counts, 1)
            /\ last_used' = Append(last_used, t)
            /\ qret' = <<"event", Len(prototypes)>>
            /\ vigilance' = vigilance]_vars
\* a vector at exactly 0.5 of the only prototype, with vigilance 0.5, became
\* the second prototype
C20_Witness ==
    /\ qlast = [op |-> "quantize", vector |-> <<3000, 4000>>]
    /\ prototypes = << <<0, 0>>, <<3000, 4000>> >> /\ vigilance = InitVigilance
    /\ usage_counts = <<1, 1>> /\ qret = <<"event", 1>>

\* the old indices that the last call, a prune, had to keep: those whose age
\* at the given tick is at most the threshold
Survivors ==
    { i \in 1..Len(qbefore.last_used) :
        qargs.step - qbefore.last_used[i] <= qargs.param }
\* the index a survivor moves to: its own less the removed ones below it
NewIndex(i) == i - Cardinality({ j \in 1..(i - 1) : j \notin Survivors })

\* C22 (SpecQuant): prune(current_tick, age_threshold) removes exactly the
\* prototypes whose age current_tick - last_active is strictly greater than
\* the threshold and keeps every one whose age is at most the threshold;
\* when all are stale the quantizer is empty, and a quantize on an empty
\* quantizer creates event_0.
C22_PruneExactlyStale ==
    /\ qlast.op = "prune" =>
          /\ Len(prototypes) = Cardinality(Survivors)
          /\ \A i \in Survivors : \E k \in 1..Len(prototypes) :
                /\ prototypes[k] = qbefore.prototypes[i]
                /\ usage_counts[k] = qbefore.usage_counts[i]
                /\ last_used[k] = qbefore.last_used[i]
          /\ \A k \in 1..Len(last_used) : qargs.step - last_used[k] <= qargs.param
          /\ (Survivors = {} => prototypes = <<>>)
    /\ (qlast.op = "quantize" /\ qbefore.prototypes = <<>>) =>
          qret = <<"event", 0>> /\ Len(prototypes) = 1
\* prune(1, 0) removed the prototype last active at tick 0 and kept the one
\* last active at tick 1, whose age equals the threshold
C22_Witness ==
    /\ qlast.op = "prune" /\ qargs = [step |-> 1, param |-> 0]
    /\ qbefore.last_used = <<0, 1>> /\ last_used = <<1>>

\* C23 (SpecQuant): after prune the survivors occupy the indices from 0 in
\* their original order: the survivor of old index i is at i less the number
\* of removed prototypes below i, with its own vector, usage count and
\* last-active tick.
C23_PruneCompacts ==
    qlast.op = "prune" =>
        /\ Len(prototypes) = Cardinality(Survivors)
        /\ Len(usage_counts) = Cardinality(Survivors)
        /\ Len(last_used) = Cardinality(Survivors)
        /\ \A i \in Survivors :
              /\ prototypes[NewIndex(i)] = qbefore.prototypes[i]
              /\ usage_counts[NewIndex(i)] = qbefore.usage_counts[i]
              /\ last_used[NewIndex(i)] = qbefore.last_used[i]
\* of three prototypes the middle one was removed: the third is now second
C23_Witness ==
    /\ qlast.op = "prune" /\ qargs = [step |-> 1, param |-> 0]
    /\ qbefore.last_used = <<1, 0, 1>> /\ Len(prototypes) = 2
    /\ prototypes[2] = qbefore.prototypes[3] /\ prototypes[1] # prototypes[2]

Dense ==
    /\ Len(usage_counts) = Len(prototypes) /\ Len(last_used) = Len(prototypes)
    /\ qlast.op = "quantize" =>
          /\ qret[1] = "event" /\ 0 <= qret[2] /\ qret[2] < Len(prototypes)
          /\ Len(prototypes) - Len(qbefore.prototypes) \in {0, 1}
\* the last call was made on the quantizer that qbefore describes
SameQuantizer == qlast.op \notin {"none", "new"}

\* C21 as stated (SpecPersist): indices are dense, every returned symbol is
\* event_<i> with 0 <= i < n, a quantize call adds at most one prototype, and
\* the number of prototypes shrinks only in prune.
C21_DenseShrinkOnlyInPrune ==
    /\ Dense
    /\ (SameQuantizer /\ Len(prototypes) < Len(qbefore.prototypes)) => qlast.op = "prune"
\* C21 (SpecPersist): indices are dense, every returned symbol is event_<i>
\* with 0 <= i < n, a quantize call adds at most one prototype, and the
\* number of prototypes changes otherwise only in prune, which never raises
\* it, and in a load that found its file, which sets it to the saved number.
C21_Dense ==
    /\ Dense
    /\ (SameQuantizer /\ Len(prototypes) # Len(qbefore.prototypes)) =>
          \/ qlast.op = "quantize"
          \/ qlast.op = "prune" /\ Len(prototypes) < Len(qbefore.prototypes)
          \/ qlast.op = "load" /\ file # NoFile /\ Len(prototypes) = Len(saved.prototypes)
\* a load brought a quantizer of two prototypes back to the saved one
C21_Witness ==
    /\ qlast.op = "load" /\ Len(qbefore.prototypes) = 2 /\ Len(prototypes) = 1
    /\ Len(usage_counts) = 1 /\ Len(last_used) = 1

\* C25 (SpecPersist): in every state reached from a new quantizer by
\* quantize, prune, adjust_vigilance, save and load of saved blobs the
\* vigilance is at least the floor 0.01, hence never negative.
C25_VigilanceFloored == vigilance >= VigilanceFloor /\ vigilance >= 0
\* a vigilance lowered to the floor, saved, and loaded into a new quantizer
C25_Witness ==
    /\ qlast.op = "load" /\ vigilance = VigilanceFloor
    /\ qbefore.vigilance = InitVigilance

\* C26 as stated (SpecPersist): quantize, prune, save and load leave the
\* vigilance as it was before the call.
C26_OnlyAdjustChangesVigilance ==
    qlast.op \in {"quantize", "prune", "save", "load"} => vigilance = qbefore.vigilance
\* C26 (SpecPersist): quantize, prune, save and a load that finds no file
\* leave the vigilance as it was; a load that finds its file sets the
\* vigilance to the one that was saved.
C26_AdjustOrLoadChangesVigilance ==
    /\ qlast.op \in {"quantize", "prune", "save"} => vigilance = qbefore.vigilance
    /\ (qlast.op = "load" /\ file = NoFile) => vigilance = qbefore.vigilance
    /\ (qlast.op = "load" /\ file # NoFile) => vigilance = saved.vigilance
\* a load put the vigilance back from 0.25 to the saved 0.5
C26_Witness ==
    /\ qlast.op = "load" /\ qbefore.vigilance = 2500 /\ vigilance = InitVigilance
    /\ saved.vigilance = InitVigilance

\* C27 (SpecPersist): a load that finds the file written by save leaves the
\* quantizer, a new one included, with the prototypes in the same order, the
\* vigilance, the usage counts and the last-active ticks that were saved;
\* quantize being a function of these fields, the loaded quantizer answers
\* later calls as the saved one would.
C27_RoundTrip ==
    (qlast.op = "load" /\ file # NoFile) => QState = saved
\* one prototype and the vigilance 0.25, loaded into a new quantizer
C27_Witness ==
    /\ qlast.op = "load" /\ qbefore = Fields(<<>>, <<>>, <<>>, InitVigilance)
    /\ Len(prototypes) = 1 /\ usage_counts = <<1>> /\ vigilance = 2500
    /\ saved = QState

\* C28 (SpecPersist): a load of a file that does not exist reports to its
\* caller an outcome that differs from the one of a load that succeeded, and
\* leaves the prototypes, vigilance, usage counts and ticks unchanged.
C28_MissingFileReported ==
    (qlast.op = "load" /\ file = NoFile) =>
        /\ qret # LoadReturn(TRUE)
        /\ QState = qbefore

\* the id configured for a name, -1 when there is none
ConfiguredId(core) ==
    CASE core = <<"^left">> -> 0
      [] core = <<"^right">> -> 1
      [] core \in {<<"^forward">>, <<"^move">>} -> 2
      [] core = <<"^pick">> -> 3
      [] core = <<"^drop">> -> 4
      [] core \in {<<"^toggle">>, <<"^activate">>} -> 5
      [] core = <<"^say">> -> 6
      [] core = <<"^wait">> -> 7
      [] OTHER -> -1

\* C30 (SpecMap): map_action(name) returns the id configured for the name
\* without the white space around it, -1 for a name that is not configured,
\* and leaves the mapping tables as they were built.
C30_MapAction ==
    /\ tables = [mapping |-> mapping, id_to_op |-> id_to_op]
    /\ mcall.op = "map_action" =>
          \A l \in Pads, c \in Cores, r \in Pads :
              mcall.arg = l \o c \o r => mret = ConfiguredId(c)
\* " ^activate" followed by a tab and a space gave 5
C30_Witness ==
    /\ mcall = [op |-> "map_action", arg |-> <<" ", "^activate", "\t", " ">>]
    /\ mret = 5

\* C31 (SpecMap): get_op_for_id returns, for an id that several names share,
\* the name inserted first (2 gives ^forward, 5 gives ^toggle), for an id of
\* one name that name, and for an id of no name the fallback ^wait.
C31_FirstInsertionWins ==
    mcall.op = "get_op_for_id" =>
        /\ mret = ReverseOp(mcall.arg)
        /\ mcall.arg = 2 => mret = "^forward"
        /\ mcall.arg = 5 => mret = "^toggle"
        /\ mcall.arg \notin 0..7 => mret = "^wait"
\* get_op_for_id(5) gave ^toggle
C31_Witness == mcall = [op |-> "get_op_for_id", arg |-> 5] /\ mret = "^toggle"

\* the configured name is the first one inserted for its id
FirstInserted(name) ==
    \E i \in 1..Len(mapping) :
        /\ mapping[i][1] = name
        /\ \A j \in 1..(i - 1) : mapping[j][2] # mapping[i][2]
ConfiguredNames == { mapping[i][1] : i \in 1..Len(mapping) }

\* C40 (SpecMap): map_action(get_op_for_id(id)) is id for the ids 0..7 and 7
\* for every other id; for a configured name n, get_op_for_id(map_action(n))
\* is n exactly when n is the first name inserted for its id, so that ^move
\* comes back as ^forward and ^activate as ^toggle.
C40_RoundTrips ==
    /\ mcall.op = "map_action(get_op_for_id)" =>
          mret = (IF mcall.arg \in 0..7 THEN mcall.arg ELSE 7)
    /\ (mcall.op = "get_op_for_id(map_action)" /\ Len(mcall.arg) = 1
        /\ mcall.arg[1] \in ConfiguredNames) =>
          /\ (mret = mcall.arg[1]) <=> FirstInserted(mcall.arg[1])
          /\ mcall.arg[1] = "^move" => mret = "^forward"
          /\ mcall.arg[1] = "^activate" => mret = "^toggle"
\* get_op_for_id(map_action("^activate")) gave ^toggle
C40_Witness ==
    /\ mcall = [op |-> "get_op_for_id(map_action)", arg |-> <<"^activate">>]
    /\ mret = "^toggle"

C37_ReaderExitsAfterStop ==
    (cpc = "stop_log" /\ thread = "started") ~> (rpc = "done")
\* stop has returned and the reader has ended on seeing the cleared flag
C37_Witness ==
    /\ nStops >= 1 /\ thread = "started" /\ ~running
    /\ rpc = "done" /\ rcause = "stop"

\* C39 (SpecStop): the reader never handles a line, log write first, when
\* stop has already closed the log, so that no line it has read loses its
\* signals to the closed log.
C39_NoWriteAfterClose ==
    [][(rpc = "line" /\ rpc' # "line") => log_file # "closed"]_vars

\* the line begins with an output tag of the dialect
OutTagged(line) == line[1] = "OUT:" \/ (dialect = "B" /\ line[1] = "Answer:")
\* the reader handles the line it has read
Handles == rpc = "line" /\ rpc' # "line" /\ log_file # "closed"

\* C33 (SpecOut): every line that begins with OUT:, and in dialect B also
\* with Answer:, adds its content after the tag to the derived-statement
\* queue once when the reader handles it, with or without an operation or a
\* confidence in it.
C33_OutputLineQueued ==
    [][(Handles /\ OutTagged(rline)) =>
         last_derived' = Append(last_derived, Strip(Tail(rline)))]_vars

\* the confidence of the ";c%" shape in the line, in hundredths
OutConfidence(line) == FirstNum([i \in 1..Len(line) |-> ConfPct(line[i])])
\* the legacy check of a line that holds "Derived" finds a confidence= value
\* above 0.1 in a line that names the last input term, if there is one
LegacyRaises(line) ==
    /\ \E i \in 1..Len(line) : line[i] \in {"Derived", "Derived:"}
    /\ last_input_term = "" \/ InText(last_input_term, line)
    /\ \E i \in 1..Len(line) :
          /\ ConfEq(line[i]) \notin {NoMatch, BadFloat} /\ ConfEq(line[i]) > 10
          /\ \A j \in 1..(i - 1) : ConfEq(line[j]) = NoMatch
\* the line carries a confidence of the ";c%" shape above 0.3
HighConfidence(line) ==
    OutConfidence(line) \notin {NoMatch, BadFloat} /\ OutConfidence(line) > 30

\* C34 as stated (SpecOut): in dialect A an OUT: line raises the prediction
\* error to at least 0.3 when its ";c%" confidence is above 0.3, and leaves
\* it unchanged when the confidence is at most 0.3 or absent.
C34_RaisedIffConfident ==
    [][(Handles /\ dialect = "A" /\ rline[1] = "OUT:") =>
         IF HighConfidence(rline)
         THEN last_error' >= 30 /\ last_error' = (IF last_error > 30 THEN last_error ELSE 30)
         ELSE last_error' = last_error]_vars
\* C34 (SpecOut): in dialect A an OUT: line raises the prediction error to at
\* least 0.3 when its ";c%" confidence is above 0.3; with a confidence of at
\* most 0.3 or none it leaves the error unchanged, unless the line also
\* holds the word Derived and a confidence= value above 0.1, which raises the
\* error to at least 0.3 by the legacy check.
C34_RaisedIffConfidentOrLegacy ==
    [][(Handles /\ dialect = "A" /\ rline[1] = "OUT:") =>
         IF HighConfidence(rline) \/ (OutConfidence(rline) # BadFloat /\ LegacyRaises(rline))
         THEN last_error' >= 30 /\ last_error' = (IF last_error > 30 THEN last_error ELSE 30)
         ELSE last_error' = last_error]_vars
\* a line with the confidence 0.30 left the error at 0, then a line with no
\* ";c%" field but with Derived and confidence=0.50 raised it
C34_Witness ==
    /\ dialect = "A" /\ last_error = 30 /\ Len(last_derived) = 2
    /\ handled = << <<"OUT:", "<a>.", "%1.00;0.30%">>,
                    <<"OUT:", "<a>.", "Derived", "confidence=0.50">> >>

\* C38 (SpecOut): in both dialects the last-action slot holds None or a text
\* that starts with "^"; no line puts the empty string or another text in it.
C38_ActionIsOperation ==
    last_action = None
    \/ (last_action.some /\ last_action.val # <<>> /\ StartsCaret(last_action.val[1]))

\* the step is a send_input on a running handle of dialect B
SendStepB == dialect = "B" /\ Len(history') = Len(history) + 1
\* the term of the sentence the step sends
SentTerm == history'[Len(history')]
\* the send leaves the error of a mismatch, and does not raise it on a match
MismatchChecked ==
    /\ SurpriseB(SentTerm, active_anticipation) => last_error' = 50
    /\ (Truthy(active_anticipation) /\ SentTerm = active_anticipation.val)
           => last_error' = last_error

\* C35 as stated (SpecMismatch): in dialect B a send whose term is non-empty,
\* differs from the active expectation and does not start with "^" sets the
\* prediction error to 0.5, a send of the expected term does not raise it,
\* and after every send the active expectation is the consequent of the
\* learned rule for the sent term, and None when there is no such rule.
C35_ExpectationRuleOrNone ==
    [][SendStepB =>
         /\ MismatchChecked
         /\ active_anticipation' =
              IF SentTerm \in DOMAIN learned_rules'
              THEN Some(learned_rules'[SentTerm]) ELSE None]_vars
\* C35 (SpecMismatch): as above, except that with no rule for the sent term
\* an empty expectation, stored by an ANTICIPATE: line that names no term,
\* is neither checked nor consumed and stays the empty string.
C35_ExpectationRuleOrNoneOrEmpty ==
    [][SendStepB =>
         /\ MismatchChecked
         /\ active_anticipation' =
              IF SentTerm \in DOMAIN learned_rules'
              THEN Some(learned_rules'[SentTerm])
              ELSE IF active_anticipation = Some(<<>>) THEN Some(<<>>) ELSE None]_vars
\* boom was sent against the expectation tock, then the engine announced an
\* expectation without a term and a sentence without a rule was sent
C35_Witness ==
    /\ dialect = "B" /\ last_error = 50 /\ Len(history) = 2
    /\ history[1] = <<"boom">> /\ history[2] \notin DOMAIN learned_rules
    /\ handled = << <<"ANTICIPATE:", "<tock>">>, <<"ANTICIPATE:">> >>
    /\ active_anticipation = Some(<<>>)

\* more than two tick and more than two tock terms are in the history
Trained(hist) == Count(hist, <<"tick">>) > 2 /\ Count(hist, <<"tock">>) > 2
\* the caller is in the last get_prediction_error of the sequence
\* get_prediction_error, send tick, send a sentence of the given term, made
\* after the training, and tmp is what the call returns
Probed(term) ==
    /\ dialect = "B" /\ running /\ cpc = "get_prediction_error" /\ sinceReset = 2
    /\ Len(history) >= 2
    /\ history[Len(history) - 1] = <<"tick">> /\ history[Len(history)] = term
    /\ Trained(SubSeq(history, 1, Len(history) - 2))
\* the term of the last sentence sent before the sequence
LastTrained == history[Len(history) - 2]

\* C36 as stated (SpecExpect): after more than two ticks and more than two
\* tocks, the sequence get_prediction_error, send tick, send boom,
\* get_prediction_error returns more than 0.05, and with tock in place of
\* boom it returns 0.
C36_BoomSurprisesTockDoesNot ==
    /\ Probed(<<"boom">>) => tmp > 5
    /\ Probed(<<"tock">>) => tmp = 0
\* C36 (SpecExpect): the same, where the tock variant returns 0 provided the
\* last sentence sent before the sequence was not tick, so that the handle
\* holds no expectation when the sequence starts.
C36_BoomSurprisesTockAfterNoTick ==
    /\ Probed(<<"boom">>) => tmp > 5
    /\ (Probed(<<"tock">>) /\ LastTrained # <<"tick">>) => tmp = 0
\* three pairs of tick and tock, then the probe with boom
C36_Witness ==
    /\ Probed(<<"boom">>) /\ tmp = 50
    /\ SubSeq(history, 1, 6) = << <<"tick">>, <<"tock">>, <<"tick">>, <<"tock">>,
                                  <<"tick">>, <<"tock">> >>
====
